---- MODULE Spec2Model ----
(***************************************************************************)
(* QuickFlix backend (src/index.js; src/unnamed/part_000 is the same       *)
(* server with another browser-launch configuration).                      *)
(*                                                                         *)
(* One Node.js process, one event loop.  Every action below is the code    *)
(* that runs between two awaits of one request handler (or of              *)
(* initBrowser, which the handlers call): the event loop interleaves the   *)
(* handlers of concurrent requests exactly at those points.                *)
(*                                                                         *)
(* Strings are sequences of tokens (a token is a piece of text that        *)
(* contains no "_" unless it is the token "_" itself), so that template    *)
(* strings are concatenations and String.includes is membership.           *)
(***************************************************************************)
EXTENDS Integers, Sequences, FiniteSets, TLC

\* ------------------------------------------------------------------ bounds
\* Number of HTTP requests issued in a run.
MaxReq == 2
\* Number of times the wall clock advances in a run.
MaxTicks == 2
\* Longest list of iframes of a detail page under ExtractSpec.
MaxIframes == 2

Req == 1..MaxReq

\* ------------------------------------------------------- program constants
\* new NodeCache({ stdTTL: 3600 })
stdTTL == 3600

\* Seconds the wall clock advances by in one step: two thirds of the TTL, so
\* that an entry is alive one step after it is stored and expired after two.
TickSeconds == (2 * stdTTL) \div 3

\* ----------------------------------------------------------------- strings
\* A query parameter or body field the client did not send.
Undefined == <<"undefined">>

\* JavaScript truthiness of a string or undefined.
Truthy(s) == s /= Undefined /\ s /= <<>>

\* Destructuring default: `{ page = 1 } = req.query`.
Default(v, d) == IF v = Undefined THEN d ELSE v

\* String.prototype.includes for a one-token needle.
Includes(s, tok) == \E i \in 1..Len(s) : s[i] = tok

\* String.prototype.startsWith('http'); optional chaining on undefined gives
\* undefined, which is falsy.
StartsWithHttp(s) == s /= Undefined /\ Len(s) > 0 /\ s[1] = "http"

\* Number(s) as used by `page > 1` and parseInt(page); -1 stands for NaN.
ToNumber(s) ==
  CASE s = <<"1">> -> 1
    [] s = <<"2">> -> 2
    [] OTHER -> -1

\* encodeURIComponent, token by token: unreserved characters are kept, a
\* space is escaped.
EncodeToken(t) == IF t = " " THEN "%20" ELSE t
encodeURIComponent(s) == [i \in 1..Len(s) |-> EncodeToken(s[i])]

\* Buffer.from(link).toString('base64') on the links of the model.
Base64(link) ==
  CASE link = <<"http", "://filmax.to/m/1">> -> <<"aHR0cDovL2ZpbG1heC50by9tLzE=">>
    [] link = <<"http", "://filmax.to/m/2">> -> <<"aHR0cDovL2ZpbG1heC50by9tLzI=">>
    [] OTHER -> <<"b64">> \o link

\* ------------------------------------------------------------------ inputs
NoQuery == [page |-> Undefined, search |-> Undefined, type |-> Undefined,
            link |-> Undefined, iframeUrl |-> Undefined]

\* GET /api/catalog?page=&search=&type=
CatalogQuery(p, s, t) == [NoQuery EXCEPT !.page = p, !.search = s, !.type = t]

\* The catalog requests of mixed traffic (Spec): no parameter given.
PlainCatalogQueries == { CatalogQuery(Undefined, Undefined, Undefined) }

\* The catalog requests of catalog traffic (CatalogSpec): searches and type
\* filters over the tokens x, y, _ and all, pages 1 and 2.
CatalogQueries ==
  { CatalogQuery(<<"1">>, <<"x", "_", "y">>, <<"all">>),
    CatalogQuery(<<"1">>, <<"x">>, <<"y", "_", "all">>),
    CatalogQuery(<<"2">>, <<>>, <<"movies">>),
    CatalogQuery(Undefined, <<>>, <<"series">>) }

\* GET /api/content/:id?link=
ContentQueries ==
  { [NoQuery EXCEPT !.link = l] :
      l \in { Undefined, <<"http", "://filmax.to/m/1">> } }

\* POST /api/extract-link  {iframeUrl}
ExtractQueries ==
  { [NoQuery EXCEPT !.iframeUrl = u] :
      u \in { Undefined, <<"http", "://streamtape.example/e/x">> } }

\* ---------------------------------------------------------- rendered pages
\* What the browser renders for a catalog URL: the elements matching
\* '.movie-item, .series-item, .content-item' in document order, and the text
\* of the last '.pagination .page-numbers' element.
CatalogDocs ==
  { [kind |-> "catalog", elems |-> <<>>, lastPage |-> <<>>],
    [kind |-> "catalog",
     elems |-> << [cls |-> "movie-item", title |-> <<>>, href |-> <<"/m/0">>],
                  [cls |-> "series-item", title |-> <<"T">>, href |-> <<"/s/1">>] >>,
     lastPage |-> <<"2">>] }

\* The `src` attributes an iframe can carry.
IframeSrcs ==
  { Undefined,
    <<"http", "://", "streamtape", ".example/embed/x">>,
    <<"http", "://", "vidplay", ".example/e">>,
    <<"http", "://", "doodstream", ".example/e">>,
    <<"http", "://", "mixdrop", ".example/e">>,
    <<"http", "://", "upstream", ".example/e">>,
    <<"http", "://", "mixdrop", ".example/?via=", "streamtape">>,
    <<"http", "://", "player", ".example/e">> }

\* What the browser renders for a detail URL: the title, the iframes' src
\* attributes in document order, and the URLs the video regex matches in the
\* concatenated inline scripts.
DetailDoc(title, iframes, scriptUrls) ==
  [kind |-> "detail", title |-> title, iframes |-> iframes, scriptUrls |-> scriptUrls]

\* The detail pages of the server runs: a reachable page on which no selector
\* matches (ExtractSpec runs the extractor on pages with iframes and scripts).
ContentDocs == { DetailDoc(<<>>, <<>>, <<>>) }

\* What a player page does while loading: the URLs of the network responses
\* observed, and the hrefs of the anchors matching
\* 'a[href*=".mp4"], a[href*=".mkv"], a[download]'.
PlayerDocs ==
  { [kind |-> "player",
     responses |-> << <<"http", "://cdn.example/v", ".mp4">>,
                      <<"http", "://cdn.example/style.css">> >>,
     anchors |-> << <<"/dl/v", ".mp4">> >>] }

NoDoc == [kind |-> "none"]

\* ------------------------------------------------------------------- state
VARIABLES
  browser,      \* `let browser = null`: 0 is null, k > 0 the k-th browser launched
  launches,     \* number of puppeteer.launch calls resolved, i.e. of browsers created
  tabs,         \* requests whose page (tab) is open in a browser
  cache,        \* the NodeCache: key -> [v: value, t: expiry time]
  clock,        \* Date.now(), in seconds
  ticks,        \* number of clock advances so far
  running,      \* the process has not exited
  req,          \* per request: the handler's position and locals, and its response
  html,         \* ExtractSpec: the detail page handed to the extractor
  videoLinks    \* ExtractSpec: the links the extractor produced from it

vars == <<browser, launches, tabs, cache, clock, ticks, running, req, html, videoLinks>>
server == <<browser, launches, tabs, cache, clock, ticks, running, req>>

NoBody == [kind |-> "none"]

\* A request not yet received.  handle, url, doc and result are the handler's
\* locals (`browser`, `url`, the loaded page `$`, the extracted data), each
\* kept only while the handler still reads it; status, body and sent are its
\* response; hit and gateway record what the handler did (answered from the
\* cache, called initBrowser), and url, in an answered request, the URL its
\* body was scraped from.
IdleReq ==
  [route |-> "none", q |-> NoQuery, pc |-> "idle", handle |-> 0, doc |-> NoDoc,
   result |-> NoBody, status |-> 0, body |-> NoBody, sent |-> 0,
   hit |-> FALSE, gateway |-> FALSE, url |-> <<>>]

\* ------------------------------------------------------------ the cache
\* Mutant of Live: entries never expire.
Live_NoExpiry(c, key, now) == key \in DOMAIN c

\* node-cache keeps an entry until its expiry time t has passed (t < now).
Live(c, key, now) == key \in DOMAIN c /\ c[key].t >= now

\* Mutant of CacheGet: the lookup never finds the key.
CacheGet_AlwaysMiss(c, key, now) == [found |-> FALSE, v |-> NoBody, from |-> <<>>]

\* cache.get(key): the value, or undefined for an absent or expired key.
CacheGet(c, key, now) ==
  IF Live(c, key, now) THEN [found |-> TRUE, v |-> c[key].v, from |-> c[key].from]
  ELSE [found |-> FALSE, v |-> NoBody, from |-> <<>>]

\* The store after cache.get(key): an expired entry is deleted on access.
CacheAfterGet(c, key, now) ==
  IF key \in DOMAIN c /\ ~Live(c, key, now)
  THEN [k \in DOMAIN c \ {key} |-> c[k]]
  ELSE c

\* cache.set(key, value): stored with the standard TTL.  `from` records the
\* URL the value was scraped from (history, not part of the program).
CacheSet(c, key, v, from, now) ==
  [k \in DOMAIN c \cup {key} |->
     IF k = key THEN [v |-> v, t |-> now + stdTTL, from |-> from] ELSE c[k]]

EmptyCache == [k \in {} |-> NoBody]

\* ------------------------------------------------------- keys and URLs
Page(q) == Default(q.page, <<"1">>)
Search(q) == Default(q.search, <<>>)
Type(q) == Default(q.type, <<"all">>)

\* `catalog_${page}_${search}_${type}`
CatalogKey(q) ==
  <<"catalog", "_">> \o Page(q) \o <<"_">> \o Search(q) \o <<"_">> \o Type(q)

\* `content_${Buffer.from(link).toString('base64')}`
ContentKey(q) == <<"content", "_">> \o Base64(q.link)

\* The URL the catalog handler navigates to.
CatalogUrl(q) ==
  LET base == <<"https://filmax.to">>
      path == IF Truthy(Search(q)) THEN <<"/search?q=">> \o encodeURIComponent(Search(q))
              ELSE IF Type(q) = <<"movies">> THEN <<"/movies">>
              ELSE IF Type(q) = <<"series">> THEN <<"/series">>
              ELSE <<>>
      pg == IF ToNumber(Page(q)) > 1
            THEN <<(IF Truthy(Search(q)) THEN "&" ELSE "?"), "page=">> \o Page(q)
            ELSE <<>>
  IN  base \o path \o pg

\* ------------------------------------------------------------ extraction
\* link.startsWith('http') ? link : `https://filmax.to${link}`
Absolute(u) == IF StartsWithHttp(u) THEN u ELSE <<"https://filmax.to">> \o u

\* parseInt(text) || 1
ParseIntOr1(s) == IF ToNumber(s) > 0 THEN ToNumber(s) ELSE 1

\* The catalog handler's `.each` loop over the matching elements, from
\* element i on: an element with a title and a link becomes an item.
RECURSIVE CatalogItems(_, _, _)
CatalogItems(elems, i, now) ==
  IF i > Len(elems) THEN <<>>
  ELSE LET el == elems[i]
           type == IF el.cls = "series-item" THEN "series" ELSE "movie"
           rest == CatalogItems(elems, i + 1, now)
       IN  IF Truthy(el.title) /\ Truthy(el.href)
           THEN << [id |-> <<type, i - 1, now>>, title |-> el.title, type |-> type,
                    link |-> Absolute(el.href)] >> \o rest
           ELSE rest

\* The catalog handler's response body.
CatalogResult(items, totalPages, q) ==
  [kind |-> "catalog", items |-> items, totalPages |-> totalPages,
   currentPage |-> ToNumber(Page(q)), totalItems |-> Len(items)]

extractProviderName(url) ==
  IF Includes(url, "streamtape") THEN "StreamTape"
  ELSE IF Includes(url, "vidplay") THEN "VidPlay"
  ELSE IF Includes(url, "doodstream") THEN "DoodStream"
  ELSE IF Includes(url, "mixdrop") THEN "MixDrop"
  ELSE IF Includes(url, "upstream") THEN "UpStream"
  ELSE "Unknown Provider"

\* The condition under which the detail handler keeps an iframe.
IframeWanted(src) ==
  /\ Truthy(src)
  /\ \/ Includes(src, "streamtape")
     \/ Includes(src, "vidplay")
     \/ Includes(src, "doodstream")
     \/ Includes(src, "mixdrop")

\* The detail handler's `$('iframe').each` loop, from iframe i on.
RECURSIVE IframeLinks(_, _)
IframeLinks(iframes, i) ==
  IF i > Len(iframes) THEN <<>>
  ELSE LET src == iframes[i]
           rest == IframeLinks(iframes, i + 1)
       IN  IF IframeWanted(src)
           THEN << [id |-> <<"link", i - 1>>, provider |-> extractProviderName(src),
                    quality |-> "HD", format |-> "MP4", size |-> "Unknown",
                    url |-> src, type |-> "iframe"] >> \o rest
           ELSE rest

\* The detail handler's `matches.forEach` over the video URLs found in scripts.
DirectLinks(urls) ==
  [i \in 1..Len(urls) |->
     [id |-> <<"direct", i - 1>>, provider |-> "Direct Link", quality |-> "HD",
      format |-> IF Includes(urls[i], ".m3u8") THEN "HLS" ELSE "MP4",
      size |-> "Unknown", url |-> urls[i], type |-> "direct"]]

\* The detail handler's videoLinks for a rendered page.
ExtractDetail(doc) == IframeLinks(doc.iframes, 1) \o DirectLinks(doc.scriptUrls)

\* The detail handler's response body.
ContentResult(doc) ==
  [kind |-> "content", title |-> doc.title, links |-> ExtractDetail(doc)]

\* The extract-link response listener: the response URLs it keeps.
IsVideoUrl(u) == Includes(u, ".mp4") \/ Includes(u, ".m3u8") \/ Includes(u, ".mkv")
VideoUrls(doc) == SelectSeq(doc.responses, IsVideoUrl)

ErrorBody(msg) == [kind |-> "error", error |-> msg]

\* ------------------------------------------------------------------- steps
\* Requests are received in the order of their numbers.
CanReceive(r) ==
  /\ running
  /\ req[r].pc = "idle"
  /\ \A o \in Req : o < r => req[o].pc /= "idle"

\* res.json(body) / res.status(code).json(body): the handler's response.
Respond(rq, code, body) ==
  [rq EXCEPT !.pc = "done", !.status = code, !.body = body, !.sent = rq.sent + 1,
             !.doc = NoDoc, !.result = NoBody, !.handle = 0,
             !.url = IF code = 200 THEN rq.url ELSE <<>>]

\* `await initBrowser()` up to its first await.  With the browser unset the
\* call suspends at `await chromium.executablePath`; with it set the call
\* returns it, and the handler goes on to `await browser.newPage()`.
initBrowser(rq) ==
  IF browser = 0
  THEN [rq EXCEPT !.pc = "executablePath", !.gateway = TRUE]
  ELSE [rq EXCEPT !.pc = "newPage", !.gateway = TRUE, !.handle = browser]

\* GET /api/catalog, from the request to the cached response or to initBrowser.
CatalogRequest(r, q) ==
  /\ CanReceive(r)
  /\ LET key == CatalogKey(q)
         cached == CacheGet(cache, key, clock)
         rq == [req[r] EXCEPT !.route = "catalog", !.q = q]
     IN  /\ cache' = CacheAfterGet(cache, key, clock)
         /\ req' = [req EXCEPT ![r] =
                      IF cached.found
                      THEN Respond([rq EXCEPT !.hit = TRUE, !.url = cached.from],
                                   200, cached.v)
                      ELSE initBrowser(rq)]
  /\ UNCHANGED <<browser, launches, tabs, clock, ticks, running, html, videoLinks>>

\* GET /api/content/:id, from the request to 400, the cached response or
\* initBrowser.
ContentRequest(r, q) ==
  /\ CanReceive(r)
  /\ LET rq == [req[r] EXCEPT !.route = "content", !.q = q]
     IN  IF ~Truthy(q.link)
         THEN /\ req' = [req EXCEPT ![r] =
                           Respond(rq, 400, ErrorBody("Content link required"))]
              /\ cache' = cache
         ELSE LET key == ContentKey(q)
                  cached == CacheGet(cache, key, clock)
              IN  /\ cache' = CacheAfterGet(cache, key, clock)
                  /\ req' = [req EXCEPT ![r] =
                               IF cached.found
                               THEN Respond([rq EXCEPT !.hit = TRUE, !.url = cached.from],
                                            200, cached.v)
                               ELSE initBrowser(rq)]
  /\ UNCHANGED <<browser, launches, tabs, clock, ticks, running, html, videoLinks>>

\* Mutant of ExtractLinkRequest: iframeUrl is not checked.
ExtractLinkRequest_Unchecked(r, q) ==
  /\ CanReceive(r)
  /\ req' = [req EXCEPT ![r] =
                initBrowser([req[r] EXCEPT !.route = "extract", !.q = q])]
  /\ UNCHANGED <<browser, launches, tabs, cache, clock, ticks, running, html, videoLinks>>

\* POST /api/extract-link, from the request to 400 or to initBrowser.
ExtractLinkRequest(r, q) ==
  /\ CanReceive(r)
  /\ LET rq == [req[r] EXCEPT !.route = "extract", !.q = q]
     IN  req' = [req EXCEPT ![r] =
                   IF ~Truthy(q.iframeUrl)
                   THEN Respond(rq, 400, ErrorBody("iframe URL required"))
                   ELSE initBrowser(rq)]
  /\ UNCHANGED <<browser, launches, tabs, cache, clock, ticks, running, html, videoLinks>>

\* initBrowser: chromium.executablePath is resolved, puppeteer.launch is called.
ExecutablePath(r) ==
  /\ running
  /\ req[r].pc = "executablePath"
  /\ req' = [req EXCEPT ![r].pc = "launch"]
  /\ UNCHANGED <<browser, launches, tabs, cache, clock, ticks, running, html, videoLinks>>

\* initBrowser: the launch is resolved with a new browser, which is assigned
\* to `browser` and returned; the handler goes on to `await browser.newPage()`.
Launch(r) ==
  /\ running
  /\ req[r].pc = "launch"
  /\ launches' = launches + 1
  /\ browser' = launches + 1
  /\ req' = [req EXCEPT ![r].pc = "newPage", ![r].handle = launches + 1]
  /\ UNCHANGED <<tabs, cache, clock, ticks, running, html, videoLinks>>

\* browser.newPage() is resolved: the tab is open; setUserAgent is called.
NewPage(r) ==
  /\ running
  /\ req[r].pc = "newPage"
  /\ tabs' = tabs \cup {r}
  /\ req' = [req EXCEPT ![r].pc = "setUserAgent", ![r].handle = 0]
  /\ UNCHANGED <<browser, launches, cache, clock, ticks, running, html, videoLinks>>

\* The URL a handler navigates to.
TargetUrl(rq) ==
  CASE rq.route = "catalog" -> CatalogUrl(rq.q)
    [] rq.route = "content" -> rq.q.link
    [] OTHER -> rq.q.iframeUrl

\* setUserAgent is resolved; the handler computes its URL and calls goto.
SetUserAgent(r) ==
  /\ running
  /\ req[r].pc = "setUserAgent"
  /\ req' = [req EXCEPT ![r].pc = "goto", ![r].url = TargetUrl(req[r])]
  /\ UNCHANGED <<browser, launches, tabs, cache, clock, ticks, running, html, videoLinks>>

\* The pages a route's URL can render.
Docs(route) ==
  CASE route = "catalog" -> CatalogDocs
    [] route = "content" -> ContentDocs
    [] OTHER -> PlayerDocs

\* What the handler awaits after the navigation.
AfterGoto(route) ==
  CASE route = "catalog" -> "waitForSelector"
    [] route = "content" -> "content"
    [] OTHER -> "waitForTimeout"

\* page.goto is resolved: the page is rendered (and, for extract-link, the
\* response listener has seen the page's network responses).
Goto(r) ==
  /\ running
  /\ req[r].pc = "goto"
  /\ \E d \in Docs(req[r].route) :
       req' = [req EXCEPT ![r].pc = AfterGoto(req[r].route), ![r].doc = d]
  /\ UNCHANGED <<browser, launches, tabs, cache, clock, ticks, running, html, videoLinks>>

\* The selector wait is resolved only when an element matches
\* '.movie-item, .series-item, .content-item'.
SelectorFound(doc) == doc.elems /= <<>>

\* page.waitForSelector is resolved (catalog).
WaitForSelector(r) ==
  /\ running
  /\ req[r].pc = "waitForSelector"
  /\ SelectorFound(req[r].doc)
  /\ req' = [req EXCEPT ![r].pc = "content"]
  /\ UNCHANGED <<browser, launches, tabs, cache, clock, ticks, running, html, videoLinks>>

\* page.waitForTimeout(3000) is resolved (extract-link).
WaitForTimeout(r) ==
  /\ running
  /\ req[r].pc = "waitForTimeout"
  /\ req' = [req EXCEPT ![r].pc = "content"]
  /\ UNCHANGED <<browser, launches, tabs, cache, clock, ticks, running, html, videoLinks>>

\* What a handler reads from the page's content `$` before it closes the page
\* (the catalog's totalPages is read from `$` after the close: the same value).
Extracted(rq, now) ==
  CASE rq.route = "catalog" ->
         [kind |-> "items", items |-> CatalogItems(rq.doc.elems, 1, now),
          totalPages |-> ParseIntOr1(rq.doc.lastPage)]
    [] rq.route = "content" -> ContentResult(rq.doc)
    [] OTHER ->
         [kind |-> "links", videoUrls |-> VideoUrls(rq.doc),
          downloadLinks |-> rq.doc.anchors]

\* page.content() is resolved: the handler extracts, then calls page.close().
Content(r) ==
  /\ running
  /\ req[r].pc = "content"
  /\ req' = [req EXCEPT ![r].pc = "close", ![r].result = Extracted(req[r], clock),
                        ![r].doc = NoDoc]
  /\ UNCHANGED <<browser, launches, tabs, cache, clock, ticks, running, html, videoLinks>>

\* The body a handler sends after page.close().
Result(rq, now) ==
  CASE rq.route = "catalog" ->
         CatalogResult(rq.result.items, rq.result.totalPages, rq.q)
    [] rq.route = "content" -> rq.result
    [] OTHER ->
         [kind |-> "extract", videoUrls |-> rq.result.videoUrls,
          downloadLinks |-> rq.result.downloadLinks, extractedAt |-> now]

\* Mutant of Stored: the content handler does not store its result.
Stored_CatalogOnly(c, rq, body, now) ==
  IF rq.route = "catalog" THEN CacheSet(c, CatalogKey(rq.q), body, rq.url, now) ELSE c

\* The store after the handler's cache.set, if it has one.
Stored(c, rq, body, now) ==
  CASE rq.route = "catalog" -> CacheSet(c, CatalogKey(rq.q), body, rq.url, now)
    [] rq.route = "content" -> CacheSet(c, ContentKey(rq.q), body, rq.url, now)
    [] OTHER -> c

\* The open tabs after a handler's page.close() is resolved.
Closed(t, r) == t \ {r}

\* page.close() is resolved: the handler builds its result, stores it and
\* sends it.
Close(r) ==
  /\ running
  /\ req[r].pc = "close"
  /\ tabs' = Closed(tabs, r)
  /\ LET body == Result(req[r], clock)
     IN  /\ cache' = Stored(cache, req[r], body, clock)
         /\ req' = [req EXCEPT ![r] = Respond(req[r], 200, body)]
  /\ UNCHANGED <<browser, launches, clock, ticks, running, html, videoLinks>>

\* The positions at which a handler awaits the browser.
Awaiting ==
  {"executablePath", "launch", "newPage", "setUserAgent", "goto",
   "waitForSelector", "waitForTimeout", "content", "close"}

ErrorMessage(route) ==
  CASE route = "catalog" -> "Failed to fetch catalog"
    [] route = "content" -> "Failed to extract content details"
    [] OTHER -> "Failed to extract download link"

\* Mutant of Catch: the error body is sent without res.status(500).
Catch_NoStatus(rq) == Respond(rq, 200, ErrorBody(ErrorMessage(rq.route)))

\* The handler's catch block.
Catch(rq) == Respond(rq, 500, ErrorBody(ErrorMessage(rq.route)))

\* The open tabs after a handler's catch block.
TabsAfterCatch(t, r) == t

\* The awaited call is rejected (launch failure, navigation failure, selector
\* timeout, detached page, ...): the handler's catch block answers.
Fail(r) ==
  /\ running
  /\ req[r].pc \in Awaiting
  /\ req' = [req EXCEPT ![r] = Catch(req[r])]
  /\ tabs' = TabsAfterCatch(tabs, r)
  /\ UNCHANGED <<browser, launches, cache, clock, ticks, running, html, videoLinks>>

\* Time passes.
Tick ==
  /\ running
  /\ ticks < MaxTicks
  /\ clock' = clock + TickSeconds
  /\ ticks' = ticks + 1
  /\ UNCHANGED <<browser, launches, tabs, cache, running, req, html, videoLinks>>

\* SIGINT: the shared browser, if set, is closed, and the process exits: its
\* memory (the cache, the handlers in flight, the browser handle) is gone.
\* Browsers that `browser` no longer refers to are not closed.
Sigint ==
  /\ running
  /\ running' = FALSE
  /\ browser' = 0
  /\ tabs' = {}
  /\ cache' = EmptyCache
  /\ req' = [r \in Req |-> IdleReq]
  /\ UNCHANGED <<launches, clock, ticks, html, videoLinks>>

\* --------------------------------------------------------- specifications
NoHtml == [page |-> NoDoc, parsed |-> TRUE]

ServerInit ==
  /\ browser = 0
  /\ launches = 0
  /\ tabs = {}
  /\ cache = EmptyCache
  /\ clock = 0
  /\ ticks = 0
  /\ running = TRUE
  /\ req = [r \in Req |-> IdleReq]

Init ==
  /\ ServerInit
  /\ html = NoHtml
  /\ videoLinks = <<>>

Next ==
  \/ \E r \in Req : \E q \in PlainCatalogQueries : CatalogRequest(r, q)
  \/ \E r \in Req : \E q \in ContentQueries : ContentRequest(r, q)
  \/ \E r \in Req : \E q \in ExtractQueries : ExtractLinkRequest(r, q)
  \/ \E r \in Req : ExecutablePath(r)
  \/ \E r \in Req : Launch(r)
  \/ \E r \in Req : NewPage(r)
  \/ \E r \in Req : SetUserAgent(r)
  \/ \E r \in Req : Goto(r)
  \/ \E r \in Req : WaitForSelector(r)
  \/ \E r \in Req : WaitForTimeout(r)
  \/ \E r \in Req : Content(r)
  \/ \E r \in Req : Close(r)
  \/ \E r \in Req : Fail(r)
  \/ Tick
  \/ Sigint

Spec == Init /\ [][Next]_vars

\* Catalog traffic only, over the wider set of catalog queries.
CatalogNext ==
  \/ \E r \in Req : \E q \in CatalogQueries : CatalogRequest(r, q)
  \/ \E r \in Req : ExecutablePath(r)
  \/ \E r \in Req : Launch(r)
  \/ \E r \in Req : NewPage(r)
  \/ \E r \in Req : SetUserAgent(r)
  \/ \E r \in Req : Goto(r)
  \/ \E r \in Req : WaitForSelector(r)
  \/ \E r \in Req : Content(r)
  \/ \E r \in Req : Close(r)
  \/ \E r \in Req : Fail(r)
  \/ Tick
  \/ Sigint

CatalogSpec == Init /\ [][CatalogNext]_vars

\* The detail extractor on its own: any page of up to MaxIframes iframes.
RECURSIVE SeqsUpTo(_, _)
SeqsUpTo(S, n) ==
  IF n = 0 THEN { <<>> }
  ELSE LET shorter == SeqsUpTo(S, n - 1)
       IN  shorter \cup { Append(s, x) : s \in shorter, x \in S }

ScriptUrlLists ==
  { <<>>,
    << <<"http", "://cdn.example/video/a", ".m3u8">> >>,
    << <<"http", "://cdn.example/video/b", ".mp4">> >> }

ExtractInit ==
  /\ ServerInit
  /\ \E ifr \in SeqsUpTo(IframeSrcs, MaxIframes) : \E su \in ScriptUrlLists :
       html = [page |-> DetailDoc(<<"T">>, ifr, su), parsed |-> FALSE]
  /\ videoLinks = <<>>

\* cheerio.load(content) and the detail handler's extraction of videoLinks.
Extract ==
  /\ ~html.parsed
  /\ videoLinks' = ExtractDetail(html.page)
  /\ html' = [html EXCEPT !.parsed = TRUE]
  /\ UNCHANGED server

ExtractNext == Extract

ExtractSpec == ExtractInit /\ [][ExtractNext]_vars

\* ------------------------------------------------------------------ claims
\* The cache key of a catalog or content request.
KeyOf(rq) == IF rq.route = "catalog" THEN CatalogKey(rq.q) ELSE ContentKey(rq.q)

Cached(rq) == rq.route \in {"catalog", "content"}

\* Request r is received in this step.
Arrives(r) == req[r].pc = "idle" /\ req'[r].pc /= "idle"

\* Request r is answered in this step after an awaited call.
Answered(r) == req[r].pc \in Awaiting /\ req'[r].pc = "done"

\* C1: over a whole run puppeteer.launch is called at most once, and all
\* handlers that hold a browser handle hold the same one.
C1_SingleFlight ==
  /\ launches <= 1
  /\ \A r, o \in Req :
       (req[r].handle /= 0 /\ req[o].handle /= 0) => req[r].handle = req[o].handle

\* C2: a catalog request received while the cache holds an entry for its key
\* that is within its TTL is answered at once with 200 and the stored body,
\* which is the body an earlier request with the same parameters was answered
\* with, and it uses no gateway: no initBrowser call, no launch, no tab.
C2_CacheHit ==
  [][\A r \in Req :
       (Arrives(r) /\ req'[r].route = "catalog"
          /\ CatalogKey(req'[r].q) \in DOMAIN cache
          /\ clock < cache[CatalogKey(req'[r].q)].t)
       => LET e == cache[CatalogKey(req'[r].q)]
          IN  /\ req'[r].pc = "done"
              /\ req'[r].status = 200
              /\ req'[r].sent = 1
              /\ req'[r].body = e.v
              /\ ~req'[r].gateway
              /\ UNCHANGED <<browser, launches, tabs>>
              /\ \E o \in Req \ {r} :
                   /\ req[o].route = "catalog"
                   /\ req[o].q = req'[r].q
                   /\ req[o].status = 200
                   /\ req[o].body = e.v]_vars

C2_Witness ==
  \E r, o \in Req :
    /\ r /= o
    /\ req[r].route = "catalog" /\ req[r].hit /\ req[r].status = 200
    /\ req[o].route = "catalog" /\ ~req[o].hit /\ req[o].status = 200
    /\ req[o].q = req[r].q
    /\ req[o].body = req[r].body
    /\ Len(req[r].body.items) > 0
    /\ req[r].body.items[1].id[3] < clock

\* C3: a catalog or content request received after the TTL of the entry of
\* its key has elapsed finds it absent and calls the gateway; and a request
\* answered from the cache is answered from an entry whose TTL has not
\* elapsed.
C3_Expiry ==
  [][\A r \in Req :
       (Arrives(r) /\ Cached(req'[r]) /\ req'[r].status /= 400)
       => LET k == KeyOf(req'[r])
          IN  /\ (k \in DOMAIN cache /\ cache[k].t < clock)
                 => /\ req'[r].gateway
                    /\ ~req'[r].hit
                    /\ req'[r].pc \in {"executablePath", "newPage"}
                    /\ k \notin DOMAIN cache'
              /\ req'[r].hit
                 => /\ k \in DOMAIN cache
                    /\ clock <= cache[k].t
                    /\ cache[k].t <= clock + stdTTL
                    /\ req'[r].body = cache[k].v]_vars

C3_Witness ==
  \E r, o \in Req :
    /\ r /= o
    /\ running
    /\ Cached(req[o]) /\ req[o].status = 200 /\ ~req[o].hit
    /\ req[r].route = req[o].route /\ req[r].q = req[o].q
    /\ req[r].gateway
    /\ KeyOf(req[o]) \notin DOMAIN cache
    /\ \A x \in Req : req[x].pc /= "idle"

\* C4 as stated: every data endpoint, extract-link included, stores the
\* result it answers with.
C4_AllEndpointsStore ==
  [][\A r \in Req :
       (Answered(r) /\ req'[r].status = 200)
       => \E k \in DOMAIN cache' : cache'[k].v = req'[r].body]_vars

\* C4 as amended: catalog and content answer a request whose key has a live
\* entry with the stored value and without the gateway, call the gateway
\* otherwise, and store the result they answer with under their key, with
\* the standard TTL; extract-link never reads or writes the cache, and every
\* extract-link request with an iframeUrl calls the gateway.
C4_CachedEndpoints ==
  [][\A r \in Req :
       /\ (Arrives(r) /\ Cached(req'[r]) /\ req'[r].status /= 400)
          => LET k == KeyOf(req'[r])
             IN  IF k \in DOMAIN cache /\ clock <= cache[k].t
                 THEN /\ req'[r].status = 200
                      /\ req'[r].body = cache[k].v
                      /\ ~req'[r].gateway
                      /\ cache' = cache
                 ELSE /\ req'[r].status = 0
                      /\ req'[r].gateway
       /\ (Answered(r) /\ req'[r].status = 200 /\ Cached(req'[r]))
          => LET k == KeyOf(req'[r])
             IN  /\ k \in DOMAIN cache'
                 /\ cache'[k].v = req'[r].body
                 /\ cache'[k].t = clock + stdTTL
                 /\ \A j \in DOMAIN cache' \ {k} : j \in DOMAIN cache /\ cache'[j] = cache[j]
       /\ (req'[r].route = "extract" /\ req'[r] /= req[r])
          => /\ cache' = cache
             /\ ~req'[r].hit
             /\ (Arrives(r) /\ req'[r].status /= 400) => req'[r].gateway]_vars

C4_Witness ==
  \E r, o \in Req :
    /\ req[o].route = "extract" /\ req[o].status = 200 /\ req[o].gateway
    /\ req[r].route = "extract" /\ req[r].status = 200 /\ req[r].gateway
    /\ req[r].q = req[o].q
    /\ req[o].body.extractedAt < req[r].body.extractedAt
    /\ req[r].body.extractedAt < req[o].body.extractedAt + stdTTL
    /\ DOMAIN cache = {}

\* C5: a content request without link and an extract-link request without
\* iframeUrl are answered 400 with an error field, and leave the browser
\* handle, the launches, the open tabs and the cache as they were.
C5_Validation ==
  [][\A r \in Req :
       (Arrives(r)
          /\ \/ req'[r].route = "content" /\ ~Truthy(req'[r].q.link)
             \/ req'[r].route = "extract" /\ ~Truthy(req'[r].q.iframeUrl))
       => /\ req'[r].pc = "done"
          /\ req'[r].status = 400
          /\ req'[r].sent = 1
          /\ req'[r].body.kind = "error"
          /\ ~req'[r].gateway
          /\ ~req'[r].hit
          /\ UNCHANGED <<browser, launches, tabs, cache>>]_vars

\* A 400 answer given while the browser is ready and the cache is populated.
C5_Witness ==
  \E r \in Req :
    /\ req[r].status = 400
    /\ req[r].route = "extract"
    /\ browser /= 0
    /\ DOMAIN cache /= {}

\* C6: a request whose awaited pipeline step fails (it is answered before its
\* tab was closed, or with an error body) is answered once, with 500 and an
\* error field, and is finished (nothing is retried); the step leaves
\* the cache as it was and the process running; every request has had at
\* most one response, exactly one when finished; and every cache entry holds
\* the body of a request that was answered 200 with it.
C6_FailureIs500 ==
  [][/\ \A r \in Req :
          /\ (Answered(r) /\ (req[r].pc /= "close" \/ req'[r].body.kind = "error"))
             => /\ req'[r].status = 500
                /\ req'[r].body.kind = "error"
                /\ req'[r].sent = 1
                /\ cache' = cache
                /\ running'
                /\ \A o \in Req \ {r} : req'[o] = req[o]
          /\ (req[r].pc = "done" /\ running')
             => req'[r] = req[r]
          /\ req'[r].sent = (IF req'[r].pc = "done" THEN 1 ELSE 0)
     /\ \A k \in DOMAIN cache' :
          \E o \in Req : /\ req'[o].status = 200
                         /\ Cached(req'[o])
                         /\ KeyOf(req'[o]) = k
                         /\ req'[o].body = cache'[k].v]_vars

\* A request answered 500, and a later request served in full.
C6_Witness ==
  \E r, o \in Req :
    /\ r < o
    /\ req[r].status = 500 /\ req[r].sent = 1
    /\ req[o].status = 200 /\ ~req[o].hit
    /\ req[o].route = req[r].route /\ req[o].q = req[r].q
    /\ DOMAIN cache /= {}
    /\ running

\* C7: zero matches is not an error: a catalog or content request whose
\* page has rendered without any matching element can go on to its 200
\* answer (for the catalog, the selector wait can resolve).
C7_ZeroMatchesIs200 ==
  \A r \in Req :
    /\ (running /\ req[r].pc = "waitForSelector" /\ req[r].doc.elems = <<>>)
       => ENABLED WaitForSelector(r)
    /\ (running /\ req[r].pc = "content" /\ req[r].route = "content"
          /\ req[r].doc.iframes = <<>> /\ req[r].doc.scriptUrls = <<>>)
       => ENABLED Content(r)

\* C8 as stated: the iframe links the claim prescribes for a list of iframes.
ClaimedProvider(src) ==
  IF Includes(src, "streamtape") THEN "StreamTape"
  ELSE IF Includes(src, "vidplay") THEN "VidPlay"
  ELSE IF Includes(src, "doodstream") THEN "DoodStream"
  ELSE IF Includes(src, "mixdrop") THEN "MixDrop"
  ELSE IF Includes(src, "upstream") THEN "UpStream"
  ELSE "none"

\* C8: the extractor yields, in document order, exactly one iframe link for
\* every iframe whose src contains one of the five provider names, labelled
\* with the first name matched, and none for any other iframe.
C8_ProviderLinks ==
  html.parsed =>
    LET known == SelectSeq(html.page.iframes,
                           LAMBDA src : src /= Undefined /\ ClaimedProvider(src) /= "none")
        got == SelectSeq(videoLinks, LAMBDA l : l.type = "iframe")
    IN  /\ Len(got) = Len(known)
        /\ \A i \in 1..Len(known) :
             got[i].url = known[i] /\ got[i].provider = ClaimedProvider(known[i])

\* C9: once every request received has been answered, no tab is open.
C9_NoTabLeft ==
  (running /\ \A r \in Req : req[r].pc \in {"idle", "done"}) => tabs = {}

\* C10: catalog requests with different (page, search, type) have different
\* cache keys, and a catalog request answered from the cache is answered with
\* a body scraped from the URL it would have navigated to.
C10_KeySeparates ==
  /\ \A r, o \in Req :
       (req[r].route = "catalog" /\ req[o].route = "catalog"
          /\ <<Page(req[r].q), Search(req[r].q), Type(req[r].q)>>
               /= <<Page(req[o].q), Search(req[o].q), Type(req[o].q)>>)
       => CatalogKey(req[r].q) /= CatalogKey(req[o].q)
  /\ \A r \in Req :
       (req[r].route = "catalog" /\ req[r].hit) => req[r].url = CatalogUrl(req[r].q)

====
